---- MODULE Spec2Model ----
(***************************************************************************)
(* Model of utils/license.py: the license-header checker check_file and   *)
(* the command-line driver main.                                           *)
(*                                                                         *)
(* Text is modelled as TLA+ strings, character for character.  A path is  *)
(* the parsed form pathlib keeps (root and parts), so path equality, name *)
(* and suffix are computed the way pathlib computes them.                  *)
(***************************************************************************)
EXTENDS Integers, Sequences, FiniteSets, TLC

VARIABLES argv, fs, pc, i, j, failing, stdout, status, opened, ret

vars == <<argv, fs, pc, i, j, failing, stdout, status, opened, ret>>

(* ----------------------------- bounds --------------------------------- *)

\* longest argument list given to the driver
MaxArgs == 3

\* largest number of whitespace characters put in front of a header
MaxPad == 2

(* ------------------------- str operations ----------------------------- *)

Char(s, k) == SubSeq(s, k, k)

\* the slice s[m-1:n] of Python: bounds are clamped to the string, and the
\* slice is empty when the range is empty
Slice(s, m, n) ==
    LET lo == IF m < 1 THEN 1 ELSE m
        hi == IF n > Len(s) THEN Len(s) ELSE n
    IN  IF lo > hi THEN "" ELSE SubSeq(s, lo, hi)

\* characters str.strip() removes (the ASCII ones that a string can hold here)
Whitespace == {" ", "\t", "\n", "\r", "\f"}

RECURSIVE LStripIdx(_, _)
LStripIdx(s, k) ==
    IF k > Len(s) THEN k
    ELSE IF Char(s, k) \in Whitespace THEN LStripIdx(s, k + 1) ELSE k

RECURSIVE RStripIdx(_, _)
RStripIdx(s, k) ==
    IF k < 1 THEN k
    ELSE IF Char(s, k) \in Whitespace THEN RStripIdx(s, k - 1) ELSE k

\* str.strip(): drop leading and trailing whitespace of the whole string
Strip(s) == Slice(s, LStripIdx(s, 1), RStripIdx(s, Len(s)))

\* str.startswith(prefix)
StartsWith(s, prefix) ==
    Len(s) >= Len(prefix) /\ Slice(s, 1, Len(prefix)) = prefix

\* str.endswith(suffix)
EndsWith(s, suffix) ==
    Len(s) >= Len(suffix) /\ Slice(s, Len(s) - Len(suffix) + 1, Len(s)) = suffix

\* str.endswith(tuple): true when some member of the tuple is a suffix
EndsWithAny(s, suffixes) == \E x \in suffixes : EndsWith(s, x)

\* str.rfind(ch), 1-based; 0 when ch does not occur (Python's -1)
RECURSIVE RFindFrom(_, _, _)
RFindFrom(s, ch, k) ==
    IF k < 1 THEN 0
    ELSE IF Char(s, k) = ch THEN k ELSE RFindFrom(s, ch, k - 1)

RFind(s, ch) == RFindFrom(s, ch, Len(s))

(* ------------------------- pathlib operations ------------------------- *)

\* str.split("/"): the segments between slashes, empty ones included
RECURSIVE SplitFrom(_, _, _, _)
SplitFrom(s, k, cur, acc) ==
    IF k > Len(s) THEN Append(acc, cur)
    ELSE IF Char(s, k) = "/" THEN SplitFrom(s, k + 1, "", Append(acc, cur))
    ELSE SplitFrom(s, k + 1, cur \o Char(s, k), acc)

SplitSlash(s) == SplitFrom(s, 1, "", <<>>)

IsRealPart(seg) == seg # "" /\ seg # "."

\* Path(arg): POSIX parsing. The root is "/" for a leading slash ("//" for
\* exactly two); empty and "." segments are dropped. Two paths are equal
\* when root and parts are equal.
Path(arg) ==
    [root  |-> IF StartsWith(arg, "//") /\ ~StartsWith(arg, "///") THEN "//"
               ELSE IF StartsWith(arg, "/") THEN "/" ELSE "",
     parts |-> SelectSeq(SplitSlash(arg), IsRealPart)]

\* PurePath.name: the final path segment, "" when there is none
Name(p) == IF p.parts = <<>> THEN "" ELSE p.parts[Len(p.parts)]

\* PurePath.suffix: from the last dot of the name, unless that dot is the
\* first or the last character of the name
Suffix(p) ==
    LET name == Name(p)
        d    == RFind(name, ".")
    IN  IF 1 < d /\ d < Len(name) THEN SubSeq(name, d, Len(name)) ELSE ""

(* --------------------------- program constants ------------------------ *)

JS_LICENSE_TEXT ==
    Strip(
    "\n" \o
    "//===----------------------------------------------------------------------===//\n" \o
    "// Copyright (c) 2025, Modular Inc. All rights reserved.\n" \o
    "//\n" \o
    "// Licensed under the Apache License v2.0 with LLVM Exceptions:\n" \o
    "// https://llvm.org/LICENSE.txt\n" \o
    "//\n" \o
    "// Unless required by applicable law or agreed to in writing, software\n" \o
    "// distributed under the License is distributed on an \"AS IS\" BASIS,\n" \o
    "// WITHOUT WARRANTIES OR CONDITIONS OF ANY KIND, either express or implied.\n" \o
    "// See the License for the specific language governing permissions and\n" \o
    "// limitations under the License.\n" \o
    "//===----------------------------------------------------------------------===//\n")

PY_YAML_LICENSE_TEXT ==
    Strip(
    "\n" \o
    "# ===----------------------------------------------------------------------=== #\n" \o
    "# Copyright (c) 2025, Modular Inc. All rights reserved.\n" \o
    "#\n" \o
    "# Licensed under the Apache License v2.0 with LLVM Exceptions:\n" \o
    "# https://llvm.org/LICENSE.txt\n" \o
    "#\n" \o
    "# Unless required by applicable law or agreed to in writing, software\n" \o
    "# distributed under the License is distributed on an \"AS IS\" BASIS,\n" \o
    "# WITHOUT WARRANTIES OR CONDITIONS OF ANY KIND, either express or implied.\n" \o
    "# See the License for the specific language governing permissions and\n" \o
    "# limitations under the License.\n" \o
    "# ===----------------------------------------------------------------------=== #\n")

EXCLUDES ==
    { Path(p) : p \in { ".pre-commit-config.yaml",
                        "package.json",
                        "package-lock.json",
                        "language-configuration.json",
                        "extension/external/psList.ts",
                        "extension/server/RpcServer.ts",
                        "extension/logging.ts",
                        "esbuild.mjs",
                        "eslint.config.mjs",
                        ".vscode-test.mjs" } }

\* the suffix lists of check_file
JsSuffixes == {".js", ".ts", ".mjs"}

PySuffixes == {".py", ".mojo", ".yaml"}

\* the suffix tuple of main's filter
MainSuffixes == {".js", ".ts", ".mjs"}

Banner == "Missing license headers"

(* ------------------------------ check_file ---------------------------- *)

\* check_file without the exclusion test
check_file_NoExcludes(path, raw) ==
    LET contents == Strip(raw)
    IN  IF Suffix(path) \in JsSuffixes /\ ~StartsWith(contents, JS_LICENSE_TEXT)
             THEN FALSE
        ELSE IF Suffix(path) \in PySuffixes /\ ~StartsWith(contents, PY_YAML_LICENSE_TEXT)
             THEN FALSE
        ELSE TRUE

\* check_file demanding the C-style header of every suffix outside the
\* hash-style list
check_file_DefaultJs(path, raw) ==
    LET contents == Strip(raw)
    IN  IF path \in EXCLUDES THEN TRUE
        ELSE IF Suffix(path) \in PySuffixes
             THEN StartsWith(contents, PY_YAML_LICENSE_TEXT)
        ELSE StartsWith(contents, JS_LICENSE_TEXT)

\* check_file comparing the whole content with the header
check_file_WholeFile(path, raw) ==
    LET contents == Strip(raw)
    IN  IF path \in EXCLUDES THEN TRUE
        ELSE IF Suffix(path) \in JsSuffixes /\ ~(contents = JS_LICENSE_TEXT)
             THEN FALSE
        ELSE IF Suffix(path) \in PySuffixes /\ ~(contents = PY_YAML_LICENSE_TEXT)
             THEN FALSE
        ELSE TRUE

\* check_file comparing the content as read, not stripped
check_file_NoStrip(path, raw) ==
    LET contents == raw
    IN  IF path \in EXCLUDES THEN TRUE
        ELSE IF Suffix(path) \in JsSuffixes /\ ~StartsWith(contents, JS_LICENSE_TEXT)
             THEN FALSE
        ELSE IF Suffix(path) \in PySuffixes /\ ~StartsWith(contents, PY_YAML_LICENSE_TEXT)
             THEN FALSE
        ELSE TRUE

\* check_file on a file that open() and read() succeeded on; raw is what
\* read() returned
check_file(path, raw) ==
    LET contents == Strip(raw)
    IN  IF path \in EXCLUDES THEN TRUE
        ELSE IF Suffix(path) \in JsSuffixes /\ ~StartsWith(contents, JS_LICENSE_TEXT)
             THEN FALSE
        ELSE IF Suffix(path) \in PySuffixes /\ ~StartsWith(contents, PY_YAML_LICENSE_TEXT)
             THEN FALSE
        ELSE TRUE

\* a filter that forwards every suffix check_file knows
Forwarded_BySuffix(arg) == Suffix(Path(arg)) \in JsSuffixes \cup PySuffixes

\* main's filter: the argument is forwarded to check_file
Forwarded(arg) == EndsWithAny(Name(Path(arg)), MainSuffixes)

(* ------------------------------ file system --------------------------- *)

\* what open(path, "r") followed by read() gives for a file
Readable(data) == [ok |-> TRUE, data |-> data]

\* open() or read() raises (missing, a directory, no permission, not text)
Unreadable == [ok |-> FALSE, data |-> ""]

(* ------------------------------ input sets ---------------------------- *)

RECURSIVE SeqsUpTo(_, _)
SeqsUpTo(S, n) ==
    IF n = 0 THEN {<<>>}
    ELSE LET shorter == SeqsUpTo(S, n - 1)
         IN  shorter \cup {Append(q, x) : q \in {r \in shorter : Len(r) = n - 1}, x \in S}

\* whitespace strings of at most n characters
RECURSIVE Pads(_)
Pads(n) ==
    IF n = 0 THEN {""}
    ELSE LET shorter == Pads(n - 1)
         IN  shorter \cup {w \o q : w \in {"\n", " "}, q \in {r \in shorter : Len(r) = n - 1}}

\* s with the character at position k replaced by c
Alter(s, k, c) == Slice(s, 1, k - 1) \o c \o Slice(s, k + 1, Len(s))

Headers == {JS_LICENSE_TEXT, PY_YAML_LICENSE_TEXT}

Trailers == {"", "\nx = 1\n"}

AltChars == {"x", " "}

\* a header, possibly padded with whitespace, possibly followed by code
HeaderTexts == {w \o h \o t : w \in Pads(MaxPad), h \in Headers, t \in Trailers \cup {" \n"}}

\* a header with exactly one character replaced by a different one
AlteredTexts ==
    UNION { UNION { {Alter(h, k, c) \o t : c \in AltChars \ {Char(h, k)}, t \in Trailers}
                    : k \in 1..Len(h) }
            : h \in Headers }

OtherTexts == {"", "x = 1\n", " \n"} \cup {Slice(h, 1, Len(h) - 1) : h \in Headers}

\* file contents given to a direct call of check_file
CheckTexts == HeaderTexts \cup AlteredTexts \cup OtherTexts

\* path arguments given to a direct call of check_file
CheckArgs ==
    {"a.js", "a.ts", "a.mjs", "a.py", "a.mojo", "a.yaml", "a.txt", "Makefile",
     ".js", "a.py.js", "a.js.txt", "src/esbuild.mjs",
     "package.json", "esbuild.mjs", "./esbuild.mjs", "extension/logging.ts",
     ".pre-commit-config.yaml"}

\* command-line arguments given to the driver
MainArgs == {"a.js", "lib/b.ts", ".js", "./esbuild.mjs", "a.py"}

\* states of a file named on the command line
MainFiles == {Readable(JS_LICENSE_TEXT \o "\nlet x = 1;\n"), Readable("let x = 1;\n"), Unreadable}

ArgPaths(args) == {Path(args[k]) : k \in DOMAIN args}

(* ------------------------------ state machine ------------------------- *)

\* the script is run: main() starts with an empty failing list
InitMain ==
    /\ argv \in SeqsUpTo(MainArgs, MaxArgs)
    /\ fs \in [ArgPaths(argv) -> MainFiles]
    /\ pc = "loop"
    /\ i = 1
    /\ j = 1
    /\ failing = <<>>
    /\ stdout = <<>>
    /\ status = -1
    /\ opened = <<>>
    /\ ret = "none"

\* the module is imported and check_file(Path(argv[1])) is called directly
InitCheck ==
    /\ argv \in {<<a>> : a \in CheckArgs}
    /\ fs \in [ArgPaths(argv) -> {Readable(t) : t \in CheckTexts} \cup {Unreadable}]
    /\ pc = "call"
    /\ i = 1
    /\ j = 1
    /\ failing = <<>>
    /\ stdout = <<>>
    /\ status = -1
    /\ opened = <<>>
    /\ ret = "none"

Init == InitMain \/ InitCheck

\* direct call, the file can be read: check_file returns its verdict
CheckFileReturn ==
    /\ pc = "call"
    /\ fs[Path(argv[1])].ok
    /\ opened' = Append(opened, argv[1])
    /\ ret' = IF check_file(Path(argv[1]), fs[Path(argv[1])].data) THEN "True" ELSE "False"
    /\ pc' = "returned"
    /\ UNCHANGED <<argv, fs, i, j, failing, stdout, status>>

\* direct call, open() or read() raises: the error goes to the caller
CheckFileRaise ==
    /\ pc = "call"
    /\ ~fs[Path(argv[1])].ok
    /\ opened' = Append(opened, argv[1])
    /\ ret' = "raise"
    /\ pc' = "raised"
    /\ UNCHANGED <<argv, fs, i, j, failing, stdout, status>>

\* loop body, the name does not end with a checked suffix: continue
MainSkip ==
    /\ pc = "loop"
    /\ i <= Len(argv)
    /\ ~Forwarded(argv[i])
    /\ i' = i + 1
    /\ UNCHANGED <<argv, fs, pc, j, failing, stdout, status, opened, ret>>

\* loop body, check_file returns True: nothing is recorded
MainCheckPass ==
    /\ pc = "loop"
    /\ i <= Len(argv)
    /\ Forwarded(argv[i])
    /\ fs[Path(argv[i])].ok
    /\ check_file(Path(argv[i]), fs[Path(argv[i])].data)
    /\ opened' = Append(opened, argv[i])
    /\ i' = i + 1
    /\ UNCHANGED <<argv, fs, pc, j, failing, stdout, status, ret>>

\* the failing argument is put at the front of the list
MainCheckFail_Prepend ==
    /\ pc = "loop"
    /\ i <= Len(argv)
    /\ Forwarded(argv[i])
    /\ fs[Path(argv[i])].ok
    /\ ~check_file(Path(argv[i]), fs[Path(argv[i])].data)
    /\ opened' = Append(opened, argv[i])
    /\ failing' = <<argv[i]>> \o failing
    /\ i' = i + 1
    /\ UNCHANGED <<argv, fs, pc, j, stdout, status, ret>>

\* loop body, check_file returns False: the argument is appended to failing
MainCheckFail ==
    /\ pc = "loop"
    /\ i <= Len(argv)
    /\ Forwarded(argv[i])
    /\ fs[Path(argv[i])].ok
    /\ ~check_file(Path(argv[i]), fs[Path(argv[i])].data)
    /\ opened' = Append(opened, argv[i])
    /\ failing' = Append(failing, argv[i])
    /\ i' = i + 1
    /\ UNCHANGED <<argv, fs, pc, j, stdout, status, ret>>

\* the error is caught and the argument recorded as failing
MainCheckRaise_Recorded ==
    /\ pc = "loop"
    /\ i <= Len(argv)
    /\ Forwarded(argv[i])
    /\ ~fs[Path(argv[i])].ok
    /\ opened' = Append(opened, argv[i])
    /\ failing' = Append(failing, argv[i])
    /\ i' = i + 1
    /\ UNCHANGED <<argv, fs, pc, j, stdout, status, ret>>

\* the error ends the process with a status of its own
MainCheckRaise_Status2 ==
    /\ pc = "loop"
    /\ i <= Len(argv)
    /\ Forwarded(argv[i])
    /\ ~fs[Path(argv[i])].ok
    /\ opened' = Append(opened, argv[i])
    /\ pc' = "aborted"
    /\ status' = 2
    /\ UNCHANGED <<argv, fs, i, j, failing, stdout, ret>>

\* loop body, check_file raises: nothing catches the error, the interpreter
\* prints a traceback on stderr and exits with status 1
MainCheckRaise ==
    /\ pc = "loop"
    /\ i <= Len(argv)
    /\ Forwarded(argv[i])
    /\ ~fs[Path(argv[i])].ok
    /\ opened' = Append(opened, argv[i])
    /\ pc' = "aborted"
    /\ status' = 1
    /\ UNCHANGED <<argv, fs, i, j, failing, stdout, ret>>

\* after the loop, failing is empty: main returns and the process exits 0
MainReturn ==
    /\ pc = "loop"
    /\ i > Len(argv)
    /\ ~(Len(failing) > 0)
    /\ pc' = "done"
    /\ status' = 0
    /\ UNCHANGED <<argv, fs, i, j, failing, stdout, opened, ret>>

\* after the loop, failing is not empty: the banner is printed
MainPrintBanner ==
    /\ pc = "loop"
    /\ i > Len(argv)
    /\ Len(failing) > 0
    /\ stdout' = Append(stdout, Banner)
    /\ j' = 1
    /\ pc' = "print"
    /\ UNCHANGED <<argv, fs, i, failing, status, opened, ret>>

\* for f in failing: print(f)
MainPrintFailing ==
    /\ pc = "print"
    /\ j <= Len(failing)
    /\ stdout' = Append(stdout, failing[j])
    /\ j' = j + 1
    /\ UNCHANGED <<argv, fs, pc, i, failing, status, opened, ret>>

\* the report is printed but the process exits normally
MainExit_Status0 ==
    /\ pc = "print"
    /\ j > Len(failing)
    /\ pc' = "done"
    /\ status' = 0
    /\ UNCHANGED <<argv, fs, i, j, failing, stdout, opened, ret>>

\* sys.exit(1)
MainExit ==
    /\ pc = "print"
    /\ j > Len(failing)
    /\ pc' = "done"
    /\ status' = 1
    /\ UNCHANGED <<argv, fs, i, j, failing, stdout, opened, ret>>

Next ==
    \/ CheckFileReturn
    \/ CheckFileRaise
    \/ MainSkip
    \/ MainCheckPass
    \/ MainCheckFail
    \/ MainCheckRaise
    \/ MainReturn
    \/ MainPrintBanner
    \/ MainPrintFailing
    \/ MainExit

Spec == Init /\ [][Next]_vars

TypeOK ==
    /\ pc \in {"call", "returned", "raised", "loop", "print", "done", "aborted"}
    /\ status \in {-1, 0, 1, 2}
    /\ ret \in {"none", "True", "False", "raise"}
    /\ Len(argv) <= MaxArgs

(* ------------------------ vocabulary of the claims --------------------- *)

InMain == pc \in {"loop", "print", "done", "aborted"}

\* the argument's final path segment ends with .js, .ts or .mjs
JsFamilyName(arg) ==
    LET name == Name(Path(arg))
    IN  \E suf \in {".js", ".ts", ".mjs"} :
            Len(name) >= Len(suf) /\ Slice(name, Len(name) - Len(suf) + 1, Len(name)) = suf

File(arg) == fs[Path(arg)]

AllForwardedReadable == \A k \in DOMAIN argv : JsFamilyName(argv[k]) => File(argv[k]).ok

\* the argument is forwarded and check_file returns False on its file
FailsCheck(arg) ==
    JsFamilyName(arg) /\ File(arg).ok /\ ~check_file(Path(arg), File(arg).data)

IsPrefix(q, r) == Len(q) <= Len(r) /\ \A k \in 1..Len(q) : q[k] = r[k]

\* number of whitespace characters at the start of text
RECURSIVE LeadingWs(_)
LeadingWs(text) ==
    IF text = "" \/ Head(text) \notin {" ", "\t", "\n", "\r", "\f"} THEN 0
    ELSE 1 + LeadingWs(Tail(text))

\* text, once its leading whitespace is dropped, begins with header
TrimmedStartsWith(text, header) ==
    LET w == LeadingWs(text)
    IN  Len(text) - w >= Len(header) /\ Slice(text, w + 1, w + Len(header)) = header

\* text begins with header in which exactly one character was altered
IsAltered(text, header) ==
    /\ Len(text) >= Len(header)
    /\ Cardinality({k \in 1..Len(header) : Char(text, k) # Char(header, k)}) = 1

\* the path argument and the file content of a direct call that returned
CallPath == Path(argv[1])

CallData == File(argv[1]).data

(* --------------------------------- claims ------------------------------ *)

\* C1: when every forwarded file is readable, the run is never aborted and
\* ends with exit status 1 exactly when some forwarded file fails
\* check_file, and with 0 otherwise (so with 0 for an empty argument list).
C1_ExitStatus ==
    (InMain /\ AllForwardedReadable) =>
        /\ pc # "aborted"
        /\ pc = "done" =>
              status = IF \E k \in DOMAIN argv : FailsCheck(argv[k]) THEN 1 ELSE 0
        /\ (pc = "done" /\ argv = <<>>) => status = 0

C1_Witness ==
    /\ pc = "done"
    /\ status = 1
    /\ AllForwardedReadable
    /\ \E k \in DOMAIN argv : FailsCheck(argv[k])
    /\ \E k \in DOMAIN argv : JsFamilyName(argv[k]) /\ ~FailsCheck(argv[k])

\* C2: when every forwarded file is readable, standard output ends up empty
\* if no forwarded file fails and otherwise as the banner followed by the
\* failing arguments in argument order; at every moment it is a prefix of
\* that, so the banner comes first and nothing else is ever printed.
C2_Stdout ==
    (InMain /\ AllForwardedReadable) =>
        LET expected == IF \E k \in DOMAIN argv : FailsCheck(argv[k])
                        THEN <<Banner>> \o SelectSeq(argv, FailsCheck)
                        ELSE <<>>
        IN  /\ IsPrefix(stdout, expected)
            /\ pc = "done" => stdout = expected

C2_Witness ==
    /\ pc = "done"
    /\ AllForwardedReadable
    /\ Len(argv) >= 3
    /\ FailsCheck(argv[1]) /\ ~FailsCheck(argv[2]) /\ FailsCheck(argv[3])
    /\ argv[1] # argv[3]
    /\ Len(stdout) >= 3 /\ stdout[2] = argv[1] /\ stdout[3] = argv[3]

C4_OtherExtensionPass ==
    /\ (pc = "returned" /\ Suffix(CallPath) \notin {".js", ".ts", ".mjs", ".py", ".mojo", ".yaml"})
           => ret = "True"
    /\ JsSuffixes \cap PySuffixes = {}

C4_Witness ==
    /\ pc = "returned"
    /\ argv[1] = "a.js.txt"
    /\ CallPath \notin EXCLUDES
    /\ ~TrimmedStartsWith(CallData, JS_LICENSE_TEXT)
    /\ ~TrimmedStartsWith(CallData, PY_YAML_LICENSE_TEXT)
    /\ ret = "True"

\* C5: for a readable, non-excluded file of the C-style family check_file
\* returns True exactly when the trimmed content starts with the C-style
\* header: the header followed by anything passes, the header with one
\* character altered fails. The same for the hash-style family and header.
C5_HeaderPrefix ==
    (pc = "returned" /\ CallPath \notin EXCLUDES) =>
        \A fam \in { [suffixes |-> {".js", ".ts", ".mjs"}, header |-> JS_LICENSE_TEXT],
                     [suffixes |-> {".py", ".mojo", ".yaml"}, header |-> PY_YAML_LICENSE_TEXT] } :
            Suffix(CallPath) \in fam.suffixes =>
                /\ (ret = "True") <=> TrimmedStartsWith(CallData, fam.header)
                /\ (Len(CallData) >= Len(fam.header)
                      /\ Slice(CallData, 1, Len(fam.header)) = fam.header) => ret = "True"
                /\ IsAltered(CallData, fam.header) => ret = "False"

C5_Witness ==
    /\ pc = "returned"
    /\ argv[1] = "a.ts"
    /\ IsAltered(CallData, JS_LICENSE_TEXT)
    /\ Len(CallData) > Len(JS_LICENSE_TEXT)
    /\ Char(CallData, Len(JS_LICENSE_TEXT)) = " "
    /\ ret = "False"

\* C6 as stated: a non-excluded file with a header requirement whose
\* content is one blank line followed by the correct header is rejected.
C6_LeadingBlankFails ==
    (/\ pc = "returned"
     /\ CallPath \notin EXCLUDES
     /\ \/ Suffix(CallPath) \in {".js", ".ts", ".mjs"}
           /\ Slice(CallData, 1, 1 + Len(JS_LICENSE_TEXT)) = "\n" \o JS_LICENSE_TEXT
        \/ Suffix(CallPath) \in {".py", ".mojo", ".yaml"}
           /\ Slice(CallData, 1, 1 + Len(PY_YAML_LICENSE_TEXT)) = "\n" \o PY_YAML_LICENSE_TEXT)
    => ret = "False"

\* C6 amended: such a file is accepted, because the content is stripped of
\* leading whitespace before it is compared with the header.
C6_LeadingBlankPasses ==
    (/\ pc = "returned"
     /\ CallPath \notin EXCLUDES
     /\ \/ Suffix(CallPath) \in {".js", ".ts", ".mjs"}
           /\ Slice(CallData, 1, 1 + Len(JS_LICENSE_TEXT)) = "\n" \o JS_LICENSE_TEXT
        \/ Suffix(CallPath) \in {".py", ".mojo", ".yaml"}
           /\ Slice(CallData, 1, 1 + Len(PY_YAML_LICENSE_TEXT)) = "\n" \o PY_YAML_LICENSE_TEXT)
    => ret = "True"

C6_Witness ==
    /\ pc = "returned"
    /\ argv[1] = "a.py"
    /\ CallData = "\n" \o PY_YAML_LICENSE_TEXT
    /\ ret = "True"

\* C7: only arguments whose final path segment ends with .js, .ts or .mjs
\* are opened; a run none of whose arguments is such a name opens nothing,
\* prints nothing, is never aborted and ends with exit status 0.
C7_OnlyJsFamilyForwarded ==
    InMain =>
        /\ \A k \in DOMAIN opened : JsFamilyName(opened[k])
        /\ (\A k \in DOMAIN argv : ~JsFamilyName(argv[k])) =>
              /\ opened = <<>>
              /\ stdout = <<>>
              /\ pc # "aborted"
              /\ pc = "done" => status = 0

C7_Witness ==
    /\ pc = "done"
    /\ status = 0
    /\ Len(argv) >= 2
    /\ \A k \in DOMAIN argv : ~JsFamilyName(argv[k])
    /\ \E k \in DOMAIN argv : ~File(argv[k]).ok
    /\ opened = <<>>

\* C8: once a forwarded file turned out unreadable the run is aborted at
\* that file: it is the last file opened, no argument after it is
\* processed, nothing was or is printed, and the failing list holds only
\* arguments whose files were readable.
C8_AbortOnUnreadable ==
    InMain =>
        /\ \A k \in DOMAIN opened :
              ~File(opened[k]).ok =>
                  /\ pc = "aborted"
                  /\ k = Len(opened)
                  /\ opened[k] = argv[i]
                  /\ stdout = <<>>
        /\ \A k \in DOMAIN failing : File(failing[k]).ok
        /\ pc = "aborted" => (stdout = <<>> /\ ~File(argv[i]).ok)

C8_Witness ==
    /\ pc = "aborted"
    /\ Len(failing) >= 1
    /\ i < Len(argv)
    /\ JsFamilyName(argv[i + 1])
    /\ Len(opened) = i
    /\ stdout = <<>>

\* C9 as stated: a run aborted by an I/O error ends with an exit status
\* that is neither 0 nor 1.
C9_AbortStatusNot1 == pc = "aborted" => (status # 0 /\ status # 1)

\* C9 amended: a run aborted by an I/O error ends with exit status 1, the
\* status a header mismatch gives as well.
C9_AbortStatusIs1 == pc = "aborted" => status = 1

C9_Witness ==
    /\ pc = "aborted"
    /\ status = 1
    /\ ~File(argv[i]).ok

\* C10: at the end of a run every forwarded, non-excluded, readable
\* argument whose trimmed content does not start with the C-style header
\* is in the failing list.
C10_ForwardedIsCompared ==
    pc = "done" =>
        \A k \in DOMAIN argv :
            (/\ JsFamilyName(argv[k])
             /\ Path(argv[k]) \notin EXCLUDES
             /\ File(argv[k]).ok
             /\ ~TrimmedStartsWith(File(argv[k]).data, JS_LICENSE_TEXT))
            => \E m \in DOMAIN failing : failing[m] = argv[k]

====
